---- MODULE Spec2Model ----
(***************************************************************************)
(* Model of cloudflare-ddns (src/main.rs): one run of main() is a chain of *)
(* steps separated by its I/O points (IP resolution, cache read, provider  *)
(* list, provider update, cache write).  Runs repeat, as under an external *)
(* scheduler; the cache file and the provider's records persist between    *)
(* runs.  Time is counted in whole hours.                                  *)
(***************************************************************************)
EXTENDS Integers, Sequences, FiniteSets, TLC

\* ---------------------------------------------------------------- bounds
MaxTime == 2
MaxRecords == 2
MaxExpiry == 1

\* ------------------------------------------------------- program constants
DefaultTtl == 1
NumIpServices == 3

\* ------------------------------------------------------------ input values
TargetName == "home.example.com"
TargetType == "A"
OtherName == "other.example.com"
OtherType == "CNAME"
Ip1 == "203.0.113.5"
Ip2 == "198.51.100.9"
Ips == {Ip1, Ip2}
AliasContent == "alias.example.net"
RemoteTtl == 300

\* CACHE_EXPIRY_HOURS parses as any i64: negative, zero and positive values
ExpiryHours == (0 - 2)..MaxExpiry

VARIABLES now, file, remote, cache_expiry_hours, pc, outcome, trace, updates,
          current_ip, cache, loaded, tDecide, listResp, listOut, target_record,
          updResp, updOut, saveRes, fileAtStart, prev, settled, services

vars == <<now, file, remote, cache_expiry_hours, pc, outcome, trace, updates,
          current_ip, cache, loaded, tDecide, listResp, listOut, target_record,
          updResp, updOut, saveRes, fileAtStart, prev, settled, services>>

\* ------------------------------------------------------------------ DnsCache
\* the snapshots a cache file may hold when the first run starts, at hour 1:
\* for the Target, checked before, at or after that hour; or written for
\* another name or another type
InitChecked == {0, 1, 2}
InitUpdated == {0, 2}

DnsCache == [record_name : {TargetName}, record_type : {TargetType},
             ip_address : Ips, last_checked : InitChecked,
             last_updated : InitUpdated]
            \cup
            [record_name : {OtherName}, record_type : {TargetType},
             ip_address : Ips, last_checked : {1}, last_updated : {0}]
            \cup
            [record_name : {TargetName}, record_type : {OtherType},
             ip_address : Ips, last_checked : {1}, last_updated : {0}]

DnsCacheNew(record_name, record_type, ip_address, t) ==
    [record_name |-> record_name, record_type |-> record_type,
     ip_address |-> ip_address, last_checked |-> t, last_updated |-> t]

\* a variant whose comparison is not strict
is_expired_at_limit(self, expiry_hours, t) == t - self.last_checked >= expiry_hours

is_expired(self, expiry_hours, t) == t - self.last_checked > expiry_hours

matches_config(self, record_name, record_type) ==
    self.record_name = record_name /\ self.record_type = record_type

\* a variant that takes the two clock readings in the other order
update_ip_swapped(self, new_ip, t1, t2) ==
    [self EXCEPT !.ip_address = new_ip, !.last_updated = t2, !.last_checked = t1]

\* update_ip reads the clock twice: t1 for last_updated, then t2 for last_checked
update_ip(self, new_ip, t1, t2) ==
    [self EXCEPT !.ip_address = new_ip, !.last_updated = t1, !.last_checked = t2]

update_checked(self, t) == [self EXCEPT !.last_checked = t]

\* ---------------------------------------------------------------- cache file
AbsentFile == [kind |-> "absent", data |-> <<>>]
CorruptFile == [kind |-> "corrupt", data |-> <<>>]
SnapshotFile(c) == [kind |-> "json", data |-> <<c>>]

InitFiles == {AbsentFile, CorruptFile} \cup {SnapshotFile(c) : c \in DnsCache}

\* Option<DnsCache> is a sequence of length 0 (None) or 1 (Some)
load_cache(f) == IF f.kind = "json" THEN f.data ELSE <<>>

SaveResults == {"ok", "fail_untouched", "fail_truncated"}

\* fs::write creates or truncates the file and then writes the content: a
\* failure leaves the old file (open failed) or a truncated one (write failed)
save_cache(f, c, res) ==
    CASE res = "ok" -> SnapshotFile(c)
      [] res = "fail_untouched" -> f
      [] OTHER -> CorruptFile

\* ------------------------------------------------------------ provider state
DnsRecord(id, type, content, ttl) ==
    [id |-> id, name |-> TargetName, content |-> content,
     record_type |-> type, ttl |-> ttl]

RecordId(i) == IF i = 1 THEN "r1" ELSE IF i = 2 THEN "r2" ELSE "r3"

RecordKinds == {<<TargetType, Ip1>>, <<TargetType, Ip2>>, <<OtherType, AliasContent>>}

InitRemotes ==
    UNION {{[i \in 1..n |-> DnsRecord(RecordId(i), k[i][1], k[i][2], RemoteTtl)] :
              k \in [1..n -> RecordKinds]} : n \in 0..MaxRecords}

\* ------------------------------------------------------ CloudflareResponse<T>
NoResponse == [net |-> "none", success |-> FALSE, messages |-> <<>>, result |-> <<>>]

\* net: the request and the decoding of the body succeeded ("ok") or not;
\* result is an Option: <<>> is None, <<payload>> is Some(payload)
ListResponses(records) ==
    {[net |-> "send_err", success |-> FALSE, messages |-> <<>>, result |-> <<>>],
     [net |-> "decode_err", success |-> FALSE, messages |-> <<>>, result |-> <<>>]}
    \cup [net : {"ok"}, success : BOOLEAN, messages : {<<>>, <<"notice">>},
          result : {<<>>, <<records>>}]

UpdateResponses(record) ==
    {[net |-> "send_err", success |-> FALSE, messages |-> <<>>, result |-> <<>>],
     [net |-> "decode_err", success |-> FALSE, messages |-> <<>>, result |-> <<>>]}
    \cup [net : {"ok"}, success : BOOLEAN, messages : {<<>>, <<"notice">>},
          result : {<<>>, <<record>>}]

NoRecords == [ok |-> FALSE, records |-> <<>>]

\* a variant that takes any informational message for a failure
get_dns_records_strict(resp) ==
    IF resp.net # "ok" \/ ~resp.success \/ resp.result = <<>> \/ resp.messages # <<>>
    THEN NoRecords
    ELSE [ok |-> TRUE, records |-> resp.result[1]]

get_dns_records(resp) ==
    IF resp.net # "ok" THEN [ok |-> FALSE, records |-> <<>>]
    ELSE IF ~resp.success THEN [ok |-> FALSE, records |-> <<>>]
    ELSE IF resp.result = <<>> THEN [ok |-> FALSE, records |-> <<>>]
    ELSE [ok |-> TRUE, records |-> resp.result[1]]

\* a variant that does not look at the success flag
update_dns_record_unchecked(resp) == resp.net = "ok"

update_dns_record(resp) ==
    IF resp.net # "ok" THEN FALSE
    ELSE IF ~resp.success THEN FALSE
    ELSE TRUE

UpdateDnsRecord(record_type, name, content, ttl) ==
    [record_type |-> record_type, name |-> name, content |-> content, ttl |-> ttl]

\* the provider: PUT dns_records/{id} replaces the addressed record, and the
\* provider answers success = true exactly when it did
Replaced(record, data) ==
    [record EXCEPT !.record_type = data.record_type, !.name = data.name,
                   !.content = data.content, !.ttl = data.ttl]

ApplyUpdate(records, id, data) ==
    [i \in 1..Len(records) |->
        IF records[i].id = id THEN Replaced(records[i], data) ELSE records[i]]

Accepted(resp) == resp.net = "ok" /\ resp.success

\* --------------------------------------------------------------- IP resolver
NoIp == [ok |-> FALSE, ip |-> ""]

JsonOutcomes == {[net |-> "send_err", ip |-> ""], [net |-> "decode_err", ip |-> ""]}
                \cup [net : {"ok"}, ip : Ips]
TextOutcomes == {[net |-> "send_err", ip |-> ""]} \cup [net : {"ok"}, ip : Ips]
IpServiceOutcomes == [json : [1..NumIpServices -> JsonOutcomes], text : TextOutcomes]

NoServices == [json |-> [i \in 1..NumIpServices |-> [net |-> "send_err", ip |-> ""]],
               text |-> [net |-> "send_err", ip |-> ""]]

RECURSIVE TryJson(_, _)
TryJson(o, i) ==
    IF i > NumIpServices
    THEN (IF o.text.net = "ok" THEN [ok |-> TRUE, ip |-> o.text.ip] ELSE NoIp)
    ELSE IF o.json[i].net = "ok" THEN [ok |-> TRUE, ip |-> o.json[i].ip]
    ELSE TryJson(o, i + 1)

get_public_ip(o) == TryJson(o, 1)

\* every result the resolver can hand to main
ResolveResults == {get_public_ip(o) : o \in IpServiceOutcomes}

\* ---------------------------------------------------------------------- main
\* records.iter().find(|r| r.record_type == record_type)
RECURSIVE FindFrom(_, _, _)
FindFrom(records, record_type, i) ==
    IF i > Len(records) THEN <<>>
    ELSE IF records[i].record_type = record_type THEN <<records[i]>>
    ELSE FindFrom(records, record_type, i + 1)

\* a variant that keeps the last record of the type (rfind)
RECURSIVE FindBack(_, _, _)
FindBack(records, record_type, i) ==
    IF i < 1 THEN <<>>
    ELSE IF records[i].record_type = record_type THEN <<records[i]>>
    ELSE FindBack(records, record_type, i - 1)

FindRecord_last(records, record_type) == FindBack(records, record_type, Len(records))

\* a variant that falls back to the first record when none has the type
FindRecord_or_first(records, record_type) ==
    IF FindFrom(records, record_type, 1) # <<>> THEN FindFrom(records, record_type, 1)
    ELSE IF records # <<>> THEN <<records[1]>>
    ELSE <<>>

FindRecord(records, record_type) == FindFrom(records, record_type, 1)

\* a variant that treats a snapshot checked exactly expiry_hours ago as expired
CacheHit_early_expiry(c, ip, expiry_hours, t) ==
    /\ c # <<>>
    /\ matches_config(c[1], TargetName, TargetType)
    /\ t - c[1].last_checked < expiry_hours
    /\ c[1].ip_address = ip

\* a variant that never looks at the age of the snapshot
CacheHit_no_expiry(c, ip, expiry_hours, t) ==
    /\ c # <<>>
    /\ matches_config(c[1], TargetName, TargetType)
    /\ c[1].ip_address = ip

\* the nested conditions that lead to the early return Ok(())
CacheHit(c, ip, expiry_hours, t) ==
    /\ c # <<>>
    /\ matches_config(c[1], TargetName, TargetType)
    /\ ~is_expired(c[1], expiry_hours, t)
    /\ c[1].ip_address = ip

\* a variant that keeps any snapshot it loaded, whatever its name and type
Reconcile_keep(c, content, t) ==
    IF c # <<>>
    THEN <<update_checked(c[1], t)>>
    ELSE <<DnsCacheNew(TargetName, TargetType, content, t)>>

\* match cache.as_mut() { Some(c) if c.matches_config(..) => update_checked, _ => new }
Reconcile(c, content, t) ==
    IF c # <<>> /\ matches_config(c[1], TargetName, TargetType)
    THEN <<update_checked(c[1], t)>>
    ELSE <<DnsCacheNew(TargetName, TargetType, content, t)>>

\* a variant that writes the record on every run that reaches the provider
NeedsUpdate_always(record, ip) == TRUE

\* a variant that takes every found record for up to date
NeedsUpdate_never(record, ip) == FALSE

NeedsUpdate(record, ip) == record.content # ip

\* a variant that leaves the ip_address of a loaded snapshot alone
RefreshIp_never(c, ip, t1, t2) == c

\* cache after the "already up to date" branch
RefreshIp(c, ip, t1, t2) ==
    IF c # <<>> /\ c[1].ip_address # ip THEN <<update_ip(c[1], ip, t1, t2)>> ELSE c

\* cache after a successful update_dns_record
StoreNewIp(c, ip, t1, t2) ==
    IF c # <<>> THEN <<update_ip(c[1], ip, t1, t2)>>
    ELSE <<DnsCacheNew(TargetName, TargetType, ip, t1)>>

\* what the next run remembers of the run before it
NoPrev == [how |-> "other", ip |-> ""]

Summary(o, ip) ==
    IF o = "hit" THEN [how |-> "hit", ip |-> ip.ip]
    ELSE IF o \in {"uptodate", "updated"} THEN [how |-> "queried", ip |-> ip.ip]
    ELSE NoPrev

Success == {"hit", "uptodate", "updated"}
Fatal == {"config", "resolve", "list", "empty", "notype", "update"}

Init ==
    /\ now = 1
    /\ file \in InitFiles
    /\ remote \in InitRemotes
    /\ cache_expiry_hours \in ExpiryHours
    /\ pc = "idle"
    /\ outcome = "none"
    /\ trace = <<>>
    /\ updates = <<>>
    /\ current_ip = NoIp
    /\ cache = <<>>
    /\ loaded = <<>>
    /\ tDecide = 0
    /\ listResp = NoResponse
    /\ listOut = NoRecords
    /\ target_record = <<>>
    /\ updResp = NoResponse
    /\ updOut = "none"
    /\ saveRes = "none"
    /\ fileAtStart = file
    /\ prev = NoPrev
    /\ settled = FALSE
    /\ services = NoServices

\* the wall clock advances
Tick ==
    /\ now < MaxTime
    /\ now' = now + 1
    /\ UNCHANGED <<file, remote, cache_expiry_hours, pc, outcome, trace, updates,
                   current_ip, cache, loaded, tDecide, listResp, listOut,
                   target_record, updResp, updOut, saveRes, fileAtStart, prev,
                   settled, services>>

\* process start: read the environment; a missing required variable aborts
Main_Start(remember) ==
    /\ pc = "idle"
    /\ \E configured \in BOOLEAN :
         /\ pc' = IF configured THEN "resolve" ELSE "idle"
         /\ outcome' = IF configured THEN "none" ELSE "config"
    /\ prev' = IF remember THEN Summary(outcome, current_ip) ELSE prev
    /\ fileAtStart' = file
    /\ trace' = <<>>
    /\ updates' = <<>>
    /\ current_ip' = NoIp
    /\ cache' = <<>>
    /\ loaded' = <<>>
    /\ tDecide' = 0
    /\ listOut' = NoRecords
    /\ target_record' = <<>>
    /\ updOut' = "none"
    /\ saveRes' = "none"
    /\ UNCHANGED <<now, file, remote, cache_expiry_hours, listResp, updResp,
                   settled, services>>

Main_Config == Main_Start(FALSE)

\* the same step, remembering how the run before it ended
Main_ConfigAfterRun == Main_Start(TRUE)

\* let current_ip = get_public_ip().await?
Main_ResolveIp ==
    /\ pc = "resolve"
    /\ \E r \in ResolveResults :
         /\ current_ip' = r
         /\ pc' = IF r.ok THEN "load" ELSE "idle"
         /\ outcome' = IF r.ok THEN "none" ELSE "resolve"
    /\ trace' = Append(trace, "resolve")
    /\ UNCHANGED <<now, file, remote, cache_expiry_hours, updates, cache, loaded,
                   tDecide, listResp, listOut, target_record, updResp, updOut,
                   saveRes, fileAtStart, prev,
                   settled, services>>

\* a variant that rewrites the cache file at the cache hit
Main_LoadCache_save_on_hit ==
    /\ pc = "load"
    /\ LET c == load_cache(file) IN
         /\ cache' = c
         /\ loaded' = c
         /\ tDecide' = now
         /\ IF CacheHit(c, current_ip.ip, cache_expiry_hours, now)
            THEN pc' = "save" /\ outcome' = "none"
            ELSE pc' = "list" /\ outcome' = "none"
    /\ trace' = Append(trace, "load")
    /\ UNCHANGED <<now, file, remote, cache_expiry_hours, updates, current_ip,
                   listResp, listOut, target_record, updResp, updOut, saveRes,
                   fileAtStart, prev, settled, services>>

\* let mut cache = load_cache(); followed by the cache-hit decision
Main_LoadCache ==
    /\ pc = "load"
    /\ LET c == load_cache(file) IN
         /\ cache' = c
         /\ loaded' = c
         /\ tDecide' = now
         /\ IF CacheHit(c, current_ip.ip, cache_expiry_hours, now)
            THEN pc' = "idle" /\ outcome' = "hit"
            ELSE pc' = "list" /\ outcome' = "none"
    /\ trace' = Append(trace, "load")
    /\ UNCHANGED <<now, file, remote, cache_expiry_hours, updates, current_ip,
                   listResp, listOut, target_record, updResp, updOut, saveRes,
                   fileAtStart, prev,
                   settled, services>>

\* get_dns_records(..).await? and the code after it up to the next I/O point
Main_ListRecords ==
    /\ pc = "list"
    /\ trace' = Append(trace, "list")
    /\ \E resp \in ListResponses(remote), d \in 0..1 :
         LET r == get_dns_records(resp)
             found == FindRecord(r.records, TargetType)
             t2 == IF now + d <= MaxTime THEN now + d ELSE now
         IN
           /\ listOut' = r
           /\ IF ~r.ok
              THEN /\ pc' = "idle" /\ outcome' = "list"
                   /\ UNCHANGED <<cache, target_record, now>>
              ELSE IF r.records = <<>>
              THEN /\ pc' = "idle" /\ outcome' = "empty"
                   /\ UNCHANGED <<cache, target_record, now>>
              ELSE IF found = <<>>
              THEN /\ pc' = "idle" /\ outcome' = "notype"
                   /\ UNCHANGED <<cache, target_record, now>>
              ELSE /\ target_record' = found
                   /\ outcome' = "none"
                   /\ IF NeedsUpdate(found[1], current_ip.ip)
                      THEN /\ pc' = "update"
                           /\ cache' = Reconcile(cache, found[1].content, now)
                           /\ now' = now
                      ELSE /\ pc' = "save"
                           /\ cache' = RefreshIp(Reconcile(cache, found[1].content, now),
                                                 current_ip.ip, now, t2)
                           /\ now' = t2
    /\ UNCHANGED <<file, remote, cache_expiry_hours, updates, current_ip, loaded,
                   tDecide, listResp, updResp, updOut, saveRes, fileAtStart, prev,
                   settled, services>>

\* a variant that writes the cache file before it knows the provider's answer
Main_UpdateRecord_save_first ==
    /\ pc = "update"
    /\ trace' = Append(trace, "update")
    /\ LET data == UpdateDnsRecord(TargetType, TargetName, current_ip.ip, DefaultTtl)
           id == target_record[1].id
       IN
         /\ updates' = Append(updates, [id |-> id, data |-> data])
         /\ file' = SnapshotFile(StoreNewIp(cache, current_ip.ip, now, now)[1])
         /\ \E resp \in UpdateResponses(Replaced(target_record[1], data)) :
                /\ remote' = IF Accepted(resp) THEN ApplyUpdate(remote, id, data)
                             ELSE remote
                /\ IF update_dns_record(resp)
                   THEN /\ pc' = "save" /\ outcome' = "none" /\ updOut' = "ok"
                        /\ cache' = StoreNewIp(cache, current_ip.ip, now, now)
                   ELSE /\ pc' = "idle" /\ outcome' = "update" /\ updOut' = "err"
                        /\ UNCHANGED cache
    /\ UNCHANGED <<now, cache_expiry_hours, current_ip, loaded, tDecide, listResp,
                   listOut, target_record, updResp, saveRes, fileAtStart, prev,
                   settled, services>>

\* cf_client.update_dns_record(&target_record.id, update_data).await? and the
\* code after it up to the cache write
Main_UpdateRecord ==
    /\ pc = "update"
    /\ trace' = Append(trace, "update")
    /\ LET data == UpdateDnsRecord(TargetType, TargetName, current_ip.ip, DefaultTtl)
           id == target_record[1].id
       IN
         /\ updates' = Append(updates, [id |-> id, data |-> data])
         /\ \E resp \in UpdateResponses(Replaced(target_record[1], data)), d \in 0..1 :
              LET t2 == IF now + d <= MaxTime THEN now + d ELSE now IN
                /\ remote' = IF Accepted(resp) THEN ApplyUpdate(remote, id, data)
                             ELSE remote
                /\ IF update_dns_record(resp)
                   THEN /\ pc' = "save" /\ outcome' = "none" /\ updOut' = "ok"
                        /\ cache' = StoreNewIp(cache, current_ip.ip, now, t2)
                        /\ now' = t2
                   ELSE /\ pc' = "idle" /\ outcome' = "update" /\ updOut' = "err"
                        /\ UNCHANGED <<cache, now>>
    /\ UNCHANGED <<file, cache_expiry_hours, current_ip, loaded, tDecide, listResp,
                   listOut, target_record, updResp, saveRes, fileAtStart, prev,
                   settled, services>>

\* a variant that propagates the error of save_cache with ?
Main_SaveCache_fatal ==
    /\ pc = "save"
    /\ trace' = Append(trace, "save")
    /\ \E res \in SaveResults :
         /\ saveRes' = res
         /\ file' = save_cache(file, cache[1], res)
         /\ outcome' = IF res # "ok" THEN "update"
                       ELSE IF updates = <<>> THEN "uptodate" ELSE "updated"
    /\ pc' = "idle"
    /\ UNCHANGED <<now, remote, cache_expiry_hours, updates, current_ip, cache,
                   loaded, tDecide, listResp, listOut, target_record, updResp,
                   updOut, fileAtStart, prev,
                   settled, services>>

\* if let Err(e) = save_cache(cached_data) { println!(..) }; Ok(())
Main_SaveCache ==
    /\ pc = "save"
    /\ trace' = Append(trace, "save")
    /\ \E res \in SaveResults :
         /\ saveRes' = res
         /\ file' = save_cache(file, cache[1], res)
    /\ pc' = "idle"
    /\ outcome' = IF updates = <<>> THEN "uptodate" ELSE "updated"
    /\ UNCHANGED <<now, remote, cache_expiry_hours, updates, current_ip, cache,
                   loaded, tDecide, listResp, listOut, target_record, updResp,
                   updOut, fileAtStart, prev,
                   settled, services>>

Next ==
    \/ Tick
    \/ Main_Config
    \/ Main_ResolveIp
    \/ Main_LoadCache
    \/ Main_ListRecords
    \/ Main_UpdateRecord
    \/ Main_SaveCache

Spec == Init /\ [][Next]_vars

\* successive runs, each remembering the one before it
NextRuns ==
    \/ Tick
    \/ Main_ConfigAfterRun
    \/ Main_ResolveIp
    \/ Main_LoadCache
    \/ Main_ListRecords
    \/ Main_UpdateRecord
    \/ Main_SaveCache

SpecRuns == Init /\ [][NextRuns]_vars

RunEnded == pc = "idle" /\ outcome # "none"

\* ------------------------------------------- repeated invocation, settling
\* the program is started again and again by a scheduler with the Target
\* configured; the resolver and the provider may fail and the resolved IP may
\* change for a while, and from some moment on (settled) they answer and the
\* resolved IP is StableIp
StableIp == Ip1

InitLive ==
    /\ Init
    /\ FindRecord(remote, TargetType) # <<>>

Settle ==
    /\ ~settled
    /\ settled' = TRUE
    /\ UNCHANGED <<now, file, remote, cache_expiry_hours, pc, outcome, trace,
                   updates, current_ip, cache, loaded, tDecide, listResp, listOut,
                   target_record, updResp, updOut, saveRes, fileAtStart, prev,
                   services>>

Older(c) ==
    [c EXCEPT !.last_checked = IF @ > 0 THEN @ - 1 ELSE 0,
              !.last_updated = IF @ > 0 THEN @ - 1 ELSE 0]

\* the clock of the model stops at MaxTime: from then on an hour passing
\* between two runs moves the timestamps of the stored snapshot one hour back
\* (a snapshot checked at hour 0 is expired at MaxTime for every expiry limit)
Age ==
    /\ pc = "idle"
    /\ now = MaxTime
    /\ file.kind = "json"
    /\ file' = SnapshotFile(Older(file.data[1]))
    /\ UNCHANGED <<now, remote, cache_expiry_hours, pc, outcome, trace, updates,
                   current_ip, cache, loaded, tDecide, listResp, listOut,
                   target_record, updResp, updOut, saveRes, fileAtStart, prev,
                   settled, services>>

Live_Start ==
    /\ Main_Start(FALSE)
    /\ pc' = "resolve"

Live_ResolveIp ==
    /\ Main_ResolveIp
    /\ settled => current_ip' = [ok |-> TRUE, ip |-> StableIp]

Live_ListRecords ==
    /\ Main_ListRecords
    /\ settled => listOut' = [ok |-> TRUE, records |-> remote]

Live_UpdateRecord ==
    /\ Main_UpdateRecord
    /\ settled => updOut' = "ok"

NextLive ==
    \/ Tick
    \/ Age
    \/ Settle
    \/ Live_Start
    \/ Live_ResolveIp
    \/ Main_LoadCache
    \/ Live_ListRecords
    \/ Live_UpdateRecord
    \/ Main_SaveCache

\* a started run goes on to its end, the scheduler starts the next one, the
\* hours pass between the runs, and the failures end
SpecLive ==
    /\ InitLive
    /\ [][NextLive]_vars
    /\ WF_vars(Live_Start)
    /\ WF_vars(Live_ResolveIp)
    /\ WF_vars(Main_LoadCache)
    /\ WF_vars(Live_ListRecords)
    /\ WF_vars(Live_UpdateRecord)
    /\ WF_vars(Main_SaveCache)
    /\ WF_vars(Tick)
    /\ SF_vars(Age)
    /\ WF_vars(Settle)

\* ------------------------------------------- get_public_ip, request by request
\* the hosts asked for the public IP, in the order of the array ip_services,
\* and the host of the plain-text fallback
ip_services == <<"api.ipify.org", "httpbin.org", "api.myip.com">>
TextService == "ipinfo.io"

InitResolve ==
    /\ now = 1
    /\ file = AbsentFile
    /\ remote = <<>>
    /\ cache_expiry_hours = 0
    /\ pc = "json"
    /\ outcome = "none"
    /\ trace = <<>>
    /\ updates = <<>>
    /\ current_ip = NoIp
    /\ cache = <<>>
    /\ loaded = <<>>
    /\ tDecide = 0
    /\ listResp = NoResponse
    /\ listOut = NoRecords
    /\ target_record = <<>>
    /\ updResp = NoResponse
    /\ updOut = "none"
    /\ saveRes = "none"
    /\ fileAtStart = AbsentFile
    /\ prev = NoPrev
    /\ settled = FALSE
    /\ services \in IpServiceOutcomes

\* a variant in which a body that does not decode ends the resolution
Resolve_Json_abort ==
    /\ pc = "json"
    /\ LET i == Len(trace) + 1
           o == services.json[i]
       IN
         /\ trace' = Append(trace, ip_services[i])
         /\ IF o.net = "ok"
            THEN /\ current_ip' = [ok |-> TRUE, ip |-> o.ip]
                 /\ pc' = "done"
                 /\ UNCHANGED outcome
            ELSE IF o.net = "decode_err"
            THEN /\ pc' = "done"
                 /\ outcome' = "resolve"
                 /\ UNCHANGED current_ip
            ELSE /\ pc' = IF i = Len(ip_services) THEN "text" ELSE "json"
                 /\ UNCHANGED <<current_ip, outcome>>
    /\ UNCHANGED <<now, file, remote, cache_expiry_hours, updates, cache, loaded,
                   tDecide, listResp, listOut, target_record, updResp, updOut,
                   saveRes, fileAtStart, prev, settled, services>>

\* one iteration of for service in &ip_services: a transport error continues
\* with the next service, and so does a body that does not decode
Resolve_Json ==
    /\ pc = "json"
    /\ LET i == Len(trace) + 1
           o == services.json[i]
       IN
         /\ trace' = Append(trace, ip_services[i])
         /\ IF o.net = "ok"
            THEN /\ current_ip' = [ok |-> TRUE, ip |-> o.ip]
                 /\ pc' = "done"
            ELSE /\ pc' = IF i = Len(ip_services) THEN "text" ELSE "json"
                 /\ UNCHANGED current_ip
    /\ UNCHANGED <<now, file, remote, cache_expiry_hours, outcome, updates, cache,
                   loaded, tDecide, listResp, listOut, target_record, updResp,
                   updOut, saveRes, fileAtStart, prev, settled, services>>

\* the fallback after the loop: client.get("https://ipinfo.io/ip").send().await?
Resolve_Text ==
    /\ pc = "text"
    /\ trace' = Append(trace, TextService)
    /\ pc' = "done"
    /\ IF services.text.net = "ok"
       THEN /\ current_ip' = [ok |-> TRUE, ip |-> services.text.ip]
            /\ UNCHANGED outcome
       ELSE /\ outcome' = "resolve"
            /\ UNCHANGED current_ip
    /\ UNCHANGED <<now, file, remote, cache_expiry_hours, updates, cache, loaded,
                   tDecide, listResp, listOut, target_record, updResp, updOut,
                   saveRes, fileAtStart, prev, settled, services>>

NextResolve ==
    \/ Resolve_Json
    \/ Resolve_Text

SpecResolve == InitResolve /\ [][NextResolve]_vars

\* ------------------------------------------- runs of a fresh installation
\* every cache file is one the program wrote itself: the first run finds none
InitCold ==
    /\ Init
    /\ file = AbsentFile

SpecCold == InitCold /\ [][Next]_vars

\* ------------------------------------------- the provider client on its own
\* get_dns_records and update_dns_record applied to every response envelope
SampleRecord == DnsRecord("r1", TargetType, Ip1, DefaultTtl)

InitEnvelope ==
    /\ now = 1
    /\ file = AbsentFile
    /\ remote = <<>>
    /\ cache_expiry_hours = 0
    /\ pc = "client"
    /\ outcome = "none"
    /\ trace = <<>>
    /\ updates = <<>>
    /\ current_ip = NoIp
    /\ cache = <<>>
    /\ loaded = <<>>
    /\ tDecide = 0
    /\ listResp \in UNION {ListResponses(r) : r \in InitRemotes}
    /\ listOut = NoRecords
    /\ target_record = <<>>
    /\ updResp \in UpdateResponses(SampleRecord)
    /\ updOut = "none"
    /\ saveRes = "none"
    /\ fileAtStart = AbsentFile
    /\ prev = NoPrev
    /\ settled = FALSE
    /\ services = NoServices

Client_GetDnsRecords ==
    /\ pc = "client"
    /\ \A i \in 1..Len(trace) : trace[i] # "list"
    /\ trace' = Append(trace, "list")
    /\ listOut' = get_dns_records(listResp)
    /\ UNCHANGED <<now, file, remote, cache_expiry_hours, pc, outcome, updates,
                   current_ip, cache, loaded, tDecide, listResp, target_record,
                   updResp, updOut, saveRes, fileAtStart, prev,
                   settled, services>>

Client_UpdateDnsRecord ==
    /\ pc = "client"
    /\ \A i \in 1..Len(trace) : trace[i] # "update"
    /\ trace' = Append(trace, "update")
    /\ updOut' = IF update_dns_record(updResp) THEN "ok" ELSE "err"
    /\ UNCHANGED <<now, file, remote, cache_expiry_hours, pc, outcome, updates,
                   current_ip, cache, loaded, tDecide, listResp, listOut,
                   target_record, updResp, saveRes, fileAtStart, prev,
                   settled, services>>

NextEnvelope ==
    \/ Client_GetDnsRecords
    \/ Client_UpdateDnsRecord

SpecEnvelope == InitEnvelope /\ [][NextEnvelope]_vars

\* ------------------------------------------------------------------- claims
Called(op) == \E i \in 1..Len(trace) : trace[i] = op

LoadedMatches ==
    /\ loaded # <<>>
    /\ loaded[1].record_name = TargetName
    /\ loaded[1].record_type = TargetType

LoadedExpired == tDecide - loaded[1].last_checked > cache_expiry_hours

HasType(rs) == \E i \in 1..Len(rs) : rs[i].record_type = TargetType

FirstOfType(rs) ==
    rs[CHOOSE i \in 1..Len(rs) :
          /\ rs[i].record_type = TargetType
          /\ \A j \in 1..(i - 1) : rs[j].record_type # TargetType]

\* the remote query succeeded and its first record of the Target type differs
\* from the resolved IP
RemoteDiffers ==
    /\ Called("list")
    /\ listOut.ok
    /\ HasType(listOut.records)
    /\ FirstOfType(listOut.records).content # current_ip.ip

\* C1: a run whose loaded snapshot matches the Target, is not expired and holds
\* the resolved IP ends in success at the cache hit, with no list_records, no
\* update_record and no cache write: the cache file is the one the run started with
C1_CacheHitNoAction ==
    (/\ Called("load")
     /\ LoadedMatches
     /\ ~LoadedExpired
     /\ loaded[1].ip_address = current_ip.ip)
    => /\ pc = "idle"
       /\ outcome = "hit"
       /\ ~Called("list")
       /\ ~Called("update")
       /\ ~Called("save")
       /\ updates = <<>>
       /\ file = fileAtStart

C1_Witness ==
    /\ outcome = "hit"
    /\ LoadedMatches
    /\ ~LoadedExpired
    /\ loaded[1].ip_address = current_ip.ip
    /\ remote # <<>>
    /\ file = SnapshotFile(loaded[1])

\* C2: at the end of a run, update_record was invoked exactly when the run
\* queried the provider, the query succeeded with a record of the Target type
\* and the first such record's content differs from the resolved IP; the cached
\* ip_address plays no part
C2_UpdateIffRemoteDiffers ==
    RunEnded => ((updates # <<>>) <=> RemoteDiffers)

C2_Witness ==
    /\ RunEnded
    /\ LoadedMatches
    /\ ~LoadedExpired
    /\ loaded[1].ip_address # current_ip.ip
    /\ Called("list")
    /\ outcome = "uptodate"
    /\ updates = <<>>

\* C3: a run whose loaded snapshot matches the Target but is expired calls
\* list_records, whatever the cached ip_address, and calls update_record when
\* the remote content differs from the resolved IP
C3_ExpiredForcesRecheck ==
    (RunEnded /\ Called("load") /\ LoadedMatches /\ LoadedExpired)
    => /\ Called("list")
       /\ RemoteDiffers => Len(updates) = 1

C3_Witness ==
    /\ RunEnded
    /\ LoadedMatches
    /\ LoadedExpired
    /\ loaded[1].ip_address = current_ip.ip
    /\ Called("list")
    /\ Len(updates) = 1

\* C4 as stated: of two successive runs with the same resolved IP, the first
\* ending in success, the second does not invoke update_record
C4_AnySuccessThenNoUpdate ==
    (/\ RunEnded
     /\ prev.how \in {"hit", "queried"}
     /\ current_ip.ok
     /\ current_ip.ip = prev.ip)
    => updates = <<>>

\* C4 (amended): of two successive runs with the same resolved IP, when the
\* first ended in success after querying the provider, or ended at the cache
\* hit and its snapshot is still unexpired when the second run reads it, the
\* second run does not invoke update_record
C4_IdempotentAfterQuery ==
    (/\ RunEnded
     /\ current_ip.ok
     /\ current_ip.ip = prev.ip
     /\ \/ prev.how = "queried"
        \/ (prev.how = "hit" /\ loaded # <<>> /\ ~LoadedExpired))
    => updates = <<>>

C4_Witness ==
    /\ RunEnded
    /\ prev.how = "queried"
    /\ current_ip.ip = prev.ip
    /\ Called("list")
    /\ outcome = "uptodate"
    /\ updates = <<>>

\* C5: a run issues update_record at most once, and the call is addressed to
\* the id of the first listed record of the Target type and carries the Target
\* type, the Target name, the resolved IP and the configured ttl
C5_UpdateCallShape ==
    /\ Len(updates) <= 1
    /\ updates # <<>> =>
         /\ listOut.ok
         /\ HasType(listOut.records)
         /\ updates[1] = [id |-> FirstOfType(listOut.records).id,
                          data |-> [record_type |-> TargetType,
                                    name |-> TargetName,
                                    content |-> current_ip.ip,
                                    ttl |-> DefaultTtl]]

C5_Witness ==
    /\ Len(updates) = 1
    /\ Len(listOut.records) = 2
    /\ listOut.records[1].record_type # TargetType
    /\ updates[1].id = listOut.records[2].id
    /\ updates[1].data.ttl # listOut.records[2].ttl

\* C6: when list_records fails, returns no record, or returns no record of the
\* Target type, the run ends with an error and update_record is not invoked
C6_QueryFailureFatal ==
    (/\ Called("list")
     /\ \/ ~listOut.ok
        \/ listOut.records = <<>>
        \/ ~HasType(listOut.records))
    => /\ pc = "idle"
       /\ outcome \in {"list", "empty", "notype"}
       /\ updates = <<>>
       /\ ~Called("update")

C6_Witness ==
    /\ outcome = "notype"
    /\ listOut.ok
    /\ listOut.records # <<>>
    /\ ~HasType(listOut.records)

\* C7: a run that ends in a fatal error leaves the cache file as it was when
\* the run started and never attempts the cache write; a failed update_record
\* ends the run in such an error
C7_ErrorKeepsCacheFile ==
    /\ (RunEnded /\ outcome \in Fatal) => (file = fileAtStart /\ ~Called("save"))
    /\ updOut = "err" => (pc = "idle" /\ outcome = "update" /\ file = fileAtStart)

C7_Witness ==
    /\ outcome = "update"
    /\ updOut = "err"
    /\ loaded # <<>>
    /\ cache # loaded
    /\ file = SnapshotFile(loaded[1])

\* C8: update_dns_record fails when the envelope has success = false, and
\* also when it has success = true but no result
C8_UpdateEnvelopeValidated ==
    (/\ pc = "client"
     /\ Called("update")
     /\ updResp.net = "ok"
     /\ (~updResp.success \/ updResp.result = <<>>))
    => updOut = "err"

\* C9: get_dns_records returns the records exactly when the envelope has
\* success = true and a result, and then returns that result; it fails when
\* success = false, whatever the result, and when the result is absent;
\* messages play no part
C9_ListEnvelopeValidated ==
    (pc = "client" /\ Called("list"))
    => /\ listOut.ok <=> (/\ listResp.net = "ok"
                          /\ listResp.success
                          /\ listResp.result # <<>>)
       /\ listOut.ok => listOut.records = listResp.result[1]
       /\ (listResp.net = "ok" /\ ~listResp.success) => ~listOut.ok

C9_Witness ==
    /\ pc = "client"
    /\ Called("list")
    /\ listResp.messages # <<>>
    /\ listOut.ok
    /\ Len(listOut.records) = 2

\* C10: with expiry_hours <= 0 every loaded snapshot is expired, whatever its
\* last_checked, and no run ends at the cache hit
C10_NonPositiveExpiryAlwaysExpired ==
    cache_expiry_hours <= 0
    => /\ outcome # "hit"
       /\ (Called("load") /\ loaded # <<>>)
            => is_expired(loaded[1], cache_expiry_hours, tDecide)

\* C11: for expiry_hours > 0 a snapshot is expired exactly when more than
\* expiry_hours hours lie between its last_checked and the time of the test:
\* a matching snapshot holding the resolved IP leads to the cache hit exactly
\* when that age is at most expiry_hours
C11_ExpiredIffOlderThanLimit ==
    (/\ Called("load")
     /\ cache_expiry_hours > 0
     /\ LoadedMatches
     /\ loaded[1].ip_address = current_ip.ip)
    => (outcome = "hit" <=> tDecide - loaded[1].last_checked <= cache_expiry_hours)

C11_Witness ==
    /\ outcome = "hit"
    /\ cache_expiry_hours > 0
    /\ LoadedMatches
    /\ tDecide - loaded[1].last_checked = cache_expiry_hours

\* C12 as stated: a snapshot written to the cache file has
\* last_updated <= last_checked whenever the snapshot the run loaded had
C12_WrittenOrderedIfLoadedOrdered ==
    (/\ saveRes = "ok"
     /\ loaded # <<>> => loaded[1].last_updated <= loaded[1].last_checked)
    => file.data[1].last_updated <= file.data[1].last_checked

\* C12 (amended): the snapshot a run holds in memory after the remote query,
\* and the one it writes, has last_updated <= last_checked whenever the loaded
\* snapshot had and its last_updated was not later than the clock of the run
C12_OrderedUnlessFromTheFuture ==
    (/\ pc \in {"update", "save"} \/ saveRes = "ok"
     /\ (loaded # <<>> /\ LoadedMatches)
          => /\ loaded[1].last_updated <= loaded[1].last_checked
             /\ loaded[1].last_updated <= tDecide)
    => /\ cache # <<>>
       /\ cache[1].last_updated <= cache[1].last_checked
       /\ saveRes = "ok" => file.data[1].last_updated <= file.data[1].last_checked

C12_Witness ==
    /\ saveRes = "ok"
    /\ LoadedMatches
    /\ loaded[1].last_updated <= loaded[1].last_checked
    /\ loaded[1].last_updated <= tDecide
    /\ file.data[1].last_updated < file.data[1].last_checked
    /\ file.data[1].last_updated # loaded[1].last_updated

\* C13 as stated: when saving the snapshot fails the run still ends in
\* success and the cache file is the one the run started with
C13_SaveFailureKeepsFile ==
    (RunEnded /\ saveRes \in SaveResults \ {"ok"})
    => /\ outcome \in Success
       /\ file = fileAtStart

\* C13 (amended): when saving the snapshot fails the run still ends in success,
\* on the already-up-to-date path or on the updated path, and the cache file
\* is the one the run started with or an emptied file that the next run
\* reads as no snapshot
C13_SaveFailureNotFatal ==
    saveRes \in SaveResults \ {"ok"}
    => /\ RunEnded
       /\ outcome = (IF updates = <<>> THEN "uptodate" ELSE "updated")
       /\ file = fileAtStart \/ (file = CorruptFile /\ load_cache(file) = <<>>)

C13_Witness ==
    /\ saveRes = "fail_truncated"
    /\ outcome = "updated"
    /\ fileAtStart.kind = "json"
    /\ file = CorruptFile

\* C14: under repeated invocation with a fixed Target, with time advancing
\* between the runs, a record of the Target type at the provider, and the
\* resolver and the provider settled, the first remote record of the Target
\* type eventually holds the resolved IP and holds it from then on
C14_Consistent ==
    /\ HasType(remote)
    /\ FirstOfType(remote).content = StableIp

C14_EventuallyConsistent == <>[]C14_Consistent

C14_Witness ==
    /\ settled
    /\ outcome = "updated"
    /\ LoadedMatches
    /\ loaded[1].ip_address = StableIp
    /\ current_ip.ip = StableIp
    /\ cache_expiry_hours > 0
    /\ C14_Consistent

\* C15: a run that loads no snapshot, or one written for another name or
\* another type, behaves as a run without a cache file: it never ends at the
\* cache hit, it queries the provider, it calls update_record exactly when the
\* remote record differs from the resolved IP, and the snapshot it writes
\* carries the Target, the resolved IP and timestamps of this run only
C15_MismatchedAsAbsent ==
    (Called("load") /\ ~LoadedMatches)
    => /\ outcome # "hit"
       /\ pc = "list" \/ Called("list")
       /\ RunEnded => (updates # <<>> <=> RemoteDiffers)
       /\ saveRes = "ok"
            => /\ file.data[1].record_name = TargetName
               /\ file.data[1].record_type = TargetType
               /\ file.data[1].ip_address = current_ip.ip
               /\ file.data[1].last_updated >= tDecide
               /\ file.data[1].last_checked >= file.data[1].last_updated

C15_Witness ==
    /\ loaded # <<>>
    /\ ~LoadedMatches
    /\ loaded[1].ip_address = current_ip.ip
    /\ tDecide - loaded[1].last_checked <= cache_expiry_hours
    /\ saveRes = "ok"
    /\ fileAtStart.data[1].record_name # TargetName
    /\ file.data[1].record_name = TargetName

\* C16: every snapshot written to the cache file carries the name and the
\* type of the Target and the IP resolved in that run, on the up-to-date path
\* and on the updated path, whatever snapshot the run loaded
C16_WrittenSnapshotIsCurrent ==
    saveRes = "ok"
    => /\ outcome \in {"uptodate", "updated"}
       /\ file.kind = "json"
       /\ file.data[1].record_name = TargetName
       /\ file.data[1].record_type = TargetType
       /\ file.data[1].ip_address = current_ip.ip

C16_Witness ==
    /\ saveRes = "ok"
    /\ outcome = "uptodate"
    /\ LoadedMatches
    /\ ~LoadedExpired
    /\ loaded[1].ip_address # current_ip.ip
    /\ file.data[1].ip_address = current_ip.ip

\* the orders in which a run can have gone through its steps
RunOrders ==
    {<<>>,
     <<"resolve">>,
     <<"resolve", "load">>,
     <<"resolve", "load", "list">>,
     <<"resolve", "load", "list", "save">>,
     <<"resolve", "load", "list", "update">>,
     <<"resolve", "load", "list", "update", "save">>}

\* C17: a run that misses its configuration takes no step at all; otherwise
\* the steps come in the order IP resolution, cache read, list_records,
\* update_record, cache write, each at most once; update_record comes only
\* after a list_records that succeeded, and nothing follows the cache write
C17_StepOrder ==
    /\ trace \in RunOrders
    /\ outcome = "config" => (trace = <<>> /\ file = fileAtStart)
    /\ Len(updates) = (IF Called("update") THEN 1 ELSE 0)
    /\ Called("update") => (listOut.ok /\ target_record # <<>>)
    /\ Called("save") => (pc = "idle" /\ trace[Len(trace)] = "save")
    /\ ~Called("save") => file = fileAtStart

C17_Witness ==
    /\ trace = <<"resolve", "load", "list", "update", "save">>
    /\ RunEnded

JsonAnswered == {i \in 1..NumIpServices : services.json[i].net = "ok"}

FirstAnswered == CHOOSE i \in JsonAnswered : \A j \in JsonAnswered : i <= j

\* C18: the resolver asks the JSON services in the order of their list, every
\* service before the one asked last has failed (by a transport error or by a
\* body that does not decode), the plain-text service is asked only after all
\* JSON services have failed, the result is the ip of the first JSON service
\* that answers, no service is asked after it, and the resolver fails exactly
\* when all JSON services fail and the plain-text request fails too
C18_ResolveOrder ==
    /\ Len(trace) <= NumIpServices + 1
    /\ \A i \in 1..Len(trace) :
         /\ trace[i] = (IF i <= NumIpServices THEN ip_services[i] ELSE TextService)
         /\ \A j \in 1..(i - 1) : services.json[j].net # "ok"
    /\ pc = "done"
         => /\ current_ip = get_public_ip(services)
            /\ (outcome = "resolve") = ~current_ip.ok
            /\ ~current_ip.ok <=> (JsonAnswered = {} /\ services.text.net # "ok")
            /\ IF JsonAnswered # {}
               THEN /\ Len(trace) = FirstAnswered
                    /\ current_ip.ip = services.json[FirstAnswered].ip
               ELSE /\ Len(trace) = NumIpServices + 1
                    /\ services.text.net = "ok" => current_ip.ip = services.text.ip

C18_Witness ==
    /\ pc = "done"
    /\ services.json[1].net = "decode_err"
    /\ services.json[2].net = "send_err"
    /\ services.json[3].net = "ok"
    /\ services.text.net = "ok"
    /\ services.text.ip # services.json[3].ip
    /\ current_ip = [ok |-> TRUE, ip |-> services.json[3].ip]
    /\ trace = ip_services

\* C19: over the runs of an installation that starts without a cache file,
\* with the remote records changed by nothing but its own updates, a run that
\* ends at the cache hit finds the first remote record of the Target type
\* holding the IP it resolved
C19_CacheHitSound ==
    outcome = "hit"
    => /\ HasType(remote)
       /\ FirstOfType(remote).content = current_ip.ip

====
